---- MODULE Spec2Model ----
(***************************************************************************)
(* Model of src/pages/trend_analysis.py: the Streamlit page `page` and the *)
(* function `compare_metrics` it calls.                                    *)
(*                                                                         *)
(* A table (pandas DataFrame) is a sequence of rows; a row is a function   *)
(* from column names to cell values.  Numeric cells are integers, the      *)
(* missing value is NaN.  A year cell is kept in tenths of a year (20005   *)
(* is the float 2000.5), so that astype(int) is a real conversion.         *)
(* Correlations and fitted values are exact rationals.                     *)
(***************************************************************************)
EXTENDS Integers, Sequences, FiniteSets, TLC

VARIABLES
    csvLife,                  \* contents of data/life-expectancy.csv
    csvCo2,                   \* contents of data/owid-co2-data.csv
    pc,                       \* per run: the statement the run is at
    entry,                    \* per run: which function the caller invoked
    dataframe,                \* page's first parameter (never read by page)
    selected_country,         \* caller-supplied list of entity names
    selected_year_range,      \* caller-supplied pair <<min_year, max_year>>
    life_expectancy_df,       \* page local
    default_df,               \* page local
    life_expectancy_filtered, \* page local
    co2_data_filtered,        \* page local
    merged_df,                \* page local
    correlation_matrix,       \* page local
    cm_args,                  \* compare_metrics: its six parameters
    cm_life_expectancy_filtered,
    cm_co2_data_filtered,
    cm_merged_df,
    fig,                      \* compare_metrics: traces of the scatter figure
    trendline,                \* compare_metrics: model.predict(X)
    st_out                    \* per run: what the run emitted through st.*

vars == <<csvLife, csvCo2, pc, entry, dataframe, selected_country,
          selected_year_range, life_expectancy_df, default_df,
          life_expectancy_filtered, co2_data_filtered, merged_df,
          correlation_matrix, cm_args, cm_life_expectancy_filtered,
          cm_co2_data_filtered, cm_merged_df, fig, trendline, st_out>>

(***************************************************************************)
(* Bounds and input domains                                                *)
(***************************************************************************)
MaxRows == 2        \* rows per table, key-varying inputs
MaxNumRows == 3     \* CO2 rows, value-varying inputs
MaxSel == 2         \* length of selected_country

Runs == {"r1", "r2"}
Entities == {"France", "Germany"}
Years == {2000, 2001}
Vals == {1, 2}

\* float('nan'): a cell value different from every number of the model
NaN == 0 - 1

\* an integer year as a year cell, and the float half a year later
YearCell(y) == y * 10
HalfYearCell(y) == y * 10 + 5

\* sequences over S of length lo..hi
SeqsOf(S, lo, hi) == UNION {[1..n -> S] : n \in lo..hi}

(***************************************************************************)
(* Rows                                                                    *)
(***************************************************************************)
LifeRow(e, y, v) == ("Entity" :> e) @@ ("Year" :> y) @@ ("Life expectancy" :> v)

Co2Row(c, y, pcap, g, cem, tr) ==
    ("country" :> c) @@ ("year" :> y) @@ ("co2_per_capita" :> pcap)
    @@ ("gdp" :> g) @@ ("cement_co2" :> cem) @@ ("trade_co2" :> tr)

\* columns of the CO2 table, in file order
Co2Columns == <<"country", "year", "co2_per_capita", "gdp", "cement_co2", "trade_co2">>

(***************************************************************************)
(* pandas operations, lines 13-28 and 74-88                                *)
(***************************************************************************)
\* int(v) of one year cell: truncation to the whole year
astype_int(v) == (v \div 10) * 10

\* df[col] = df[col].astype(int)
AstypeIntColumn(df, col) ==
    [i \in 1..Len(df) |-> [df[i] EXCEPT ![col] = astype_int(@)]]

\* Series.isin(values) for one cell
isin(v, values) == \E i \in 1..Len(values) : values[i] = v

\* RowMask with the upper end of the year range left out
RowMaskExclusive(df, entityCol, yearCol, countries, year_range) ==
    [i \in 1..Len(df) |->
        /\ isin(df[i][entityCol], countries)
        /\ df[i][yearCol] >= YearCell(year_range[1])
        /\ df[i][yearCol] < YearCell(year_range[2])]

\* the boolean mask of lines 17-19, 23-25, 75-77 and 82-84
RowMask(df, entityCol, yearCol, countries, year_range) ==
    [i \in 1..Len(df) |->
        /\ isin(df[i][entityCol], countries)
        /\ df[i][yearCol] >= YearCell(year_range[1])
        /\ df[i][yearCol] <= YearCell(year_range[2])]

\* BoolIndex that drops the unselected rows from the frame itself
BoolIndexInPlace(df, mask) ==
    LET idx == SelectSeq([i \in 1..Len(df) |-> i], LAMBDA i : mask[i])
        kept == [k \in 1..Len(idx) |-> df[idx[k]]]
    IN  [self |-> kept, result |-> kept]

\* df[mask]: a new frame of the rows whose mask is true, in index order; the
\* frame indexed (self) is left as it is
BoolIndex(df, mask) ==
    LET idx == SelectSeq([i \in 1..Len(df) |-> i], LAMBDA i : mask[i])
    IN  [self |-> df, result |-> [k \in 1..Len(idx) |-> df[idx[k]]]]

\* MatchesOf with the join key cut down to the entity
MatchesOfEntity(l, right) ==
    LET m == SelectSeq(right, LAMBDA rr : rr["Entity"] = l["country"])
    IN  [k \in 1..Len(m) |-> l @@ m[k]]

\* the right rows whose (Entity, Year) equals the left row's (country, year),
\* each appended to the left row
MatchesOf(l, right) ==
    LET m == SelectSeq(right, LAMBDA rr : rr["Entity"] = l["country"] /\ rr["Year"] = l["year"])
    IN  [k \in 1..Len(m) |-> l @@ m[k]]

\* pd.merge(left, right, left_on=["country","year"], right_on=["Entity","Year"],
\* how="inner"): left order, and for one left row the right order
RECURSIVE merge(_, _)
merge(left, right) ==
    IF left = <<>> THEN <<>>
    ELSE MatchesOf(Head(left), right) \o merge(Tail(left), right)

\* df[col] as a sequence of cells
Column(df, col) == [i \in 1..Len(df) |-> df[i][col]]

RECURSIVE SumSeq(_)
SumSeq(s) == IF s = <<>> THEN 0 ELSE Head(s) + SumSeq(Tail(s))

\* n * sum(x*y) - sum(x) * sum(y), which is n*n times the covariance of xs and
\* ys, summed as sum(x * (n*y - sum(y))) to keep the terms small
CrossDev(xs, ys) ==
    SumSeq([i \in 1..Len(xs) |-> xs[i] * (Len(xs) * ys[i] - SumSeq(ys))])

(***************************************************************************)
(* DataFrame.corr(), line 38.  A coefficient is num / sqrt(den2); den2 = 0 *)
(* is NaN, the coefficient pandas gives when the divisor is zero or no row *)
(* has both cells.                                                         *)
(***************************************************************************)
NaNCorr == [num |-> 0, den2 |-> 0]

\* the rows in which both columns are present (pairwise-complete observations)
PairwiseComplete(df, a, b) == SelectSeq(df, LAMBDA row : row[a] # NaN /\ row[b] # NaN)

\* pearson with the diagonal set to 1 whatever the column holds
pearson_unit_diagonal(df, a, b) ==
    LET rows == PairwiseComplete(df, a, b)
        xs == Column(rows, a)
        ys == Column(rows, b)
        divisor2 == CrossDev(xs, xs) * CrossDev(ys, ys)
    IN  IF a = b THEN [num |-> 1, den2 |-> 1]
        ELSE IF Len(rows) < 1 \/ divisor2 = 0
        THEN NaNCorr
        ELSE [num |-> CrossDev(xs, ys), den2 |-> divisor2]

\* Pearson's coefficient of columns a and b over their pairwise-complete rows
pearson(df, a, b) ==
    LET rows == PairwiseComplete(df, a, b)
        xs == Column(rows, a)
        ys == Column(rows, b)
        divisor2 == CrossDev(xs, xs) * CrossDev(ys, ys)
    IN  IF Len(rows) < 1 \/ divisor2 = 0
        THEN NaNCorr
        ELSE [num |-> CrossDev(xs, ys), den2 |-> divisor2]

\* line 37
selected_columns == <<"co2_per_capita", "gdp", "cement_co2", "trade_co2">>

\* df[columns].corr(): pandas computes the cell of (xi, yi) for yi <= xi and
\* stores it at both [xi, yi] and [yi, xi]
corr(df, columns) ==
    [p \in (1..Len(columns)) \X (1..Len(columns)) |->
        IF p[2] <= p[1] THEN pearson(df, columns[p[1]], columns[p[2]])
                        ELSE pearson(df, columns[p[2]], columns[p[1]])]

(***************************************************************************)
(* statsmodels, lines 110-115.  A fitted value is num / den; den = 0 is    *)
(* NaN.                                                                    *)
(***************************************************************************)
\* sm.OLS(y, X) raises MissingDataError when X holds a NaN
OlsRaises(df, x) == \E i \in 1..Len(df) : df[i][x] = NaN

\* ols_predict with the line fitted to the rows of the first row's country
\* alone
ols_predict_one_country(df, x, y) ==
    LET sub == SelectSeq(df, LAMBDA row : row["country"] = df[1]["country"])
        xs == Column(sub, x)
        ys == Column(sub, y)
        n == Len(sub)
        sxx == CrossDev(xs, xs)
        sxy == CrossDev(xs, ys)
    IN  IF sxx = 0
        THEN [i \in 1..Len(df) |-> [num |-> SumSeq(ys), den |-> n]]
        ELSE [i \in 1..Len(df) |->
                [num |-> SumSeq(ys) * sxx + sxy * (n * df[i][x] - SumSeq(xs)),
                 den |-> n * sxx]]

\* sm.OLS(y, sm.add_constant(X)).fit().predict(X): the least-squares
\* projection of y on the span of the constant and the x column.  When the
\* x column is constant (or there is one row) the span is the constant's
\* alone and every fitted value is the mean of y.
ols_predict(df, x, y) ==
    LET xs == Column(df, x)
        ys == Column(df, y)
        n == Len(df)
        sxx == CrossDev(xs, xs)
        sxy == CrossDev(xs, ys)
    IN  IF \E i \in 1..n : ys[i] = NaN
        THEN [i \in 1..n |-> [num |-> 0, den |-> 0]]
        ELSE IF sxx = 0
        THEN [i \in 1..n |-> [num |-> SumSeq(ys), den |-> n]]
        ELSE [i \in 1..n |->
                [num |-> SumSeq(ys) * sxx + sxy * (n * xs[i] - SumSeq(xs)),
                 den |-> n * sxx]]

(***************************************************************************)
(* State after construction                                                *)
(***************************************************************************)
NoArgs ==
    [default_df |-> <<>>, life_expectancy_df |-> <<>>, selected_country |-> <<>>,
     selected_year_range |-> <<0, 0>>, x_axis_variable |-> "", y_axis_variable |-> ""]

\* no run has started: every local is unbound (an empty table, an all-NaN matrix)
InitLocals ==
    /\ entry = [r \in Runs |-> "none"]
    /\ life_expectancy_df = [r \in Runs |-> <<>>]
    /\ default_df = [r \in Runs |-> <<>>]
    /\ life_expectancy_filtered = [r \in Runs |-> <<>>]
    /\ co2_data_filtered = [r \in Runs |-> <<>>]
    /\ merged_df = [r \in Runs |-> <<>>]
    /\ correlation_matrix = [r \in Runs |-> corr(<<>>, selected_columns)]
    /\ cm_args = [r \in Runs |-> NoArgs]
    /\ cm_life_expectancy_filtered = [r \in Runs |-> <<>>]
    /\ cm_co2_data_filtered = [r \in Runs |-> <<>>]
    /\ cm_merged_df = [r \in Runs |-> <<>>]
    /\ fig = [r \in Runs |-> <<>>]
    /\ trendline = [r \in Runs |-> <<>>]
    /\ st_out = [r \in Runs |-> <<>>]

\* slider values: min_year <= max_year
YearRanges == {rg \in Years \X Years : rg[1] <= rg[2]}

\* multiselect values; the two entity names are interchangeable in the code,
\* so a non-empty selection starts with the first one
Selections == {s \in SeqsOf(Entities, 0, MaxSel) : s = <<>> \/ s[1] = "France"}

\* Key-varying inputs: rows differ in entity and year (whole and fractional
\* years in the CO2 file, fractional and whole in the life-expectancy file);
\* the measures follow the key.
KeyCo2Row(c, y) ==
    Co2Row(c, y, IF c = "France" THEN 1 ELSE 2, IF c = "France" THEN 1 ELSE NaN,
           0, IF c = "France" THEN NaN ELSE 1)

KeyLifeRow(e, y) == LifeRow(e, y, IF y = YearCell(2001) THEN 2 ELSE 1)

KeyCo2Rows ==
    {KeyCo2Row(c, y) :
        c \in Entities, y \in {YearCell(2000), HalfYearCell(2000), YearCell(2001)}}

KeyLifeRows == {KeyLifeRow(e, y) : e \in Entities, y \in {HalfYearCell(2000), YearCell(2001)}}

\* the complete files: every entity and year once, sorted by entity and year
FullCo2 ==
    <<KeyCo2Row("France", YearCell(2000)), KeyCo2Row("France", HalfYearCell(2000)),
      KeyCo2Row("France", YearCell(2001)), KeyCo2Row("Germany", YearCell(2000)),
      KeyCo2Row("Germany", HalfYearCell(2000)), KeyCo2Row("Germany", YearCell(2001))>>

FullLife ==
    <<KeyLifeRow("France", HalfYearCell(2000)), KeyLifeRow("France", YearCell(2001)),
      KeyLifeRow("Germany", HalfYearCell(2000)), KeyLifeRow("Germany", YearCell(2001))>>

\* any CO2 file of up to MaxRows rows beside the complete life-expectancy
\* file, or any life-expectancy file of up to MaxRows rows beside the
\* complete CO2 file
InitKeys ==
    /\ \/ csvCo2 \in SeqsOf(KeyCo2Rows, 0, MaxRows) /\ csvLife = FullLife
       \/ csvCo2 = FullCo2 /\ csvLife \in SeqsOf(KeyLifeRows, 0, MaxRows)
    /\ selected_country \in [Runs -> Selections]
    /\ selected_year_range \in [Runs -> YearRanges]
    /\ selected_country["r2"] = <<>> /\ selected_year_range["r2"] = <<2000, 2000>>

\* one caller: run r1 is invoked, run r2 never is
OneCaller ==
    /\ dataframe = [r \in Runs |-> csvCo2]
    /\ pc = [r \in Runs |-> IF r = "r1" THEN "idle" ELSE "off"]
    /\ InitLocals

Init == InitKeys /\ OneCaller

\* Value-varying inputs: every row is of the year 2000 and both entities are
\* selected; the measures vary, a row of co2_per_capita 1 being France's
\* and a row of any other value Germany's.
NumCo2Rows ==
    {Co2Row(IF pcap = 1 THEN "France" ELSE "Germany", YearCell(2000), pcap, g, 0, tr) :
        pcap \in Vals, g \in Vals \cup {NaN}, tr \in {1, NaN}}

InitNum ==
    /\ csvCo2 \in SeqsOf(NumCo2Rows, 1, MaxNumRows)
    /\ csvLife = <<LifeRow("France", YearCell(2000), 1), LifeRow("Germany", YearCell(2000), 2)>>
    /\ selected_country = [r \in Runs |-> IF r = "r1" THEN <<"France", "Germany">> ELSE <<>>]
    /\ selected_year_range = [r \in Runs |-> <<2000, 2000>>]
    /\ OneCaller

(***************************************************************************)
(* page, lines 7-70                                                        *)
(***************************************************************************)
inputs == <<csvLife, csvCo2, dataframe, selected_country, selected_year_range>>
pageTables == <<life_expectancy_df, default_df>>
pageFiltered == <<life_expectancy_filtered, co2_data_filtered>>
cmLocals == <<cm_life_expectancy_filtered, cm_co2_data_filtered, cm_merged_df, fig, trendline>>

\* pd.read_csv(path): a new frame holding the file's rows
read_csv(file) == file

\* line 8: the caller invokes page; st.title
Page(r) ==
    /\ pc[r] = "idle"
    /\ entry' = [entry EXCEPT ![r] = "page"]
    /\ st_out' = [st_out EXCEPT ![r] = Append(@, "title")]
    /\ pc' = [pc EXCEPT ![r] = "read_csv"]
    /\ UNCHANGED <<inputs, pageTables, pageFiltered, merged_df, correlation_matrix,
                   cm_args, cmLocals>>

\* lines 11-12
ReadCsv(r) ==
    /\ pc[r] = "read_csv"
    /\ life_expectancy_df' = [life_expectancy_df EXCEPT ![r] = read_csv(csvLife)]
    /\ default_df' = [default_df EXCEPT ![r] = read_csv(csvCo2)]
    /\ pc' = [pc EXCEPT ![r] = "astype"]
    /\ UNCHANGED <<inputs, entry, pageFiltered, merged_df, correlation_matrix,
                   cm_args, cmLocals, st_out>>

\* line 13: only the life-expectancy table's Year is converted
AstypeYear(r) ==
    /\ pc[r] = "astype"
    /\ life_expectancy_df' =
           [life_expectancy_df EXCEPT ![r] = AstypeIntColumn(@, "Year")]
    /\ pc' = [pc EXCEPT ![r] = "filter_life"]
    /\ UNCHANGED <<inputs, entry, default_df, pageFiltered, merged_df,
                   correlation_matrix, cm_args, cmLocals, st_out>>

\* lines 16-20
FilterLife(r) ==
    /\ pc[r] = "filter_life"
    /\ LET ix == BoolIndex(life_expectancy_df[r],
                           RowMask(life_expectancy_df[r], "Entity", "Year",
                                   selected_country[r], selected_year_range[r]))
       IN  /\ life_expectancy_df' = [life_expectancy_df EXCEPT ![r] = ix.self]
           /\ life_expectancy_filtered' = [life_expectancy_filtered EXCEPT ![r] = ix.result]
    /\ pc' = [pc EXCEPT ![r] = "filter_co2"]
    /\ UNCHANGED <<inputs, entry, default_df, co2_data_filtered, merged_df,
                   correlation_matrix, cm_args, cmLocals, st_out>>

\* lines 22-26
FilterCo2(r) ==
    /\ pc[r] = "filter_co2"
    /\ LET ix == BoolIndex(default_df[r],
                           RowMask(default_df[r], "country", "year",
                                   selected_country[r], selected_year_range[r]))
       IN  /\ default_df' = [default_df EXCEPT ![r] = ix.self]
           /\ co2_data_filtered' = [co2_data_filtered EXCEPT ![r] = ix.result]
    /\ pc' = [pc EXCEPT ![r] = "merge"]
    /\ UNCHANGED <<inputs, entry, life_expectancy_df, life_expectancy_filtered,
                   merged_df, correlation_matrix, cm_args, cmLocals, st_out>>

\* line 28
Merge(r) ==
    /\ pc[r] = "merge"
    /\ merged_df' = [merged_df EXCEPT ![r] =
                        merge(co2_data_filtered[r], life_expectancy_filtered[r])]
    /\ pc' = [pc EXCEPT ![r] = "guard"]
    /\ UNCHANGED <<inputs, entry, pageTables, pageFiltered, correlation_matrix,
                   cm_args, cmLocals, st_out>>

\* empty that holds of no frame
emptyNever(df) == Len(df) < 0

\* DataFrame.empty
empty(df) == Len(df) = 0

\* lines 31-33: warn and return on an empty merge, else go on
Guard(r) ==
    /\ pc[r] = "guard"
    /\ IF empty(merged_df[r])
       THEN /\ st_out' = [st_out EXCEPT ![r] = Append(@, "warning")]
            /\ pc' = [pc EXCEPT ![r] = "done"]
       ELSE /\ st_out' = st_out
            /\ pc' = [pc EXCEPT ![r] = "corr"]
    /\ UNCHANGED <<inputs, entry, pageTables, pageFiltered, merged_df,
                   correlation_matrix, cm_args, cmLocals>>

\* lines 37-38
Corr(r) ==
    /\ pc[r] = "corr"
    /\ correlation_matrix' = [correlation_matrix EXCEPT ![r] =
                                 corr(merged_df[r], selected_columns)]
    /\ pc' = [pc EXCEPT ![r] = "heatmap"]
    /\ UNCHANGED <<inputs, entry, pageTables, pageFiltered, merged_df, cm_args,
                   cmLocals, st_out>>

\* lines 41-58: the heatmap's z is correlation_matrix.values; st.plotly_chart
Heatmap(r) ==
    /\ pc[r] = "heatmap"
    /\ st_out' = [st_out EXCEPT ![r] = Append(@, "heatmap")]
    /\ pc' = [pc EXCEPT ![r] = "selectbox"]
    /\ UNCHANGED <<inputs, entry, pageTables, pageFiltered, merged_df,
                   correlation_matrix, cm_args, cmLocals>>

\* lines 62-63: the CO2 table's columns without 'country'
available_columns == SelectSeq(Co2Columns, LAMBDA c : c # "country")

\* line 66: the options of the X-axis selectbox
XOptions == <<"Life expectancy">> \o available_columns

\* line 67
y_axis_variable == "co2_per_capita"

\* CallArgs with the life-expectancy table as it is in the file
CallArgsUnconverted(r, x) ==
    [default_df |-> default_df[r], life_expectancy_df |-> read_csv(csvLife),
     selected_country |-> selected_country[r],
     selected_year_range |-> selected_year_range[r],
     x_axis_variable |-> x, y_axis_variable |-> y_axis_variable]

\* line 70: the arguments page passes to compare_metrics
CallArgs(r, x) ==
    [default_df |-> default_df[r], life_expectancy_df |-> life_expectancy_df[r],
     selected_country |-> selected_country[r],
     selected_year_range |-> selected_year_range[r],
     x_axis_variable |-> x, y_axis_variable |-> y_axis_variable]

\* lines 62-70: the user's X-axis choice, then the call of compare_metrics
SelectboxAndCall(r) ==
    /\ pc[r] = "selectbox"
    /\ \E k \in 1..Len(XOptions) :
           cm_args' = [cm_args EXCEPT ![r] = CallArgs(r, XOptions[k])]
    /\ pc' = [pc EXCEPT ![r] = "cm_filter_life"]
    /\ UNCHANGED <<inputs, entry, pageTables, pageFiltered, merged_df,
                   correlation_matrix, cmLocals, st_out>>

(***************************************************************************)
(* compare_metrics, lines 72-135                                           *)
(***************************************************************************)
cmFiltered == <<cm_life_expectancy_filtered, cm_co2_data_filtered>>
pageLocals == <<pageTables, pageFiltered, merged_df, correlation_matrix>>

\* a caller invokes compare_metrics itself, with the tables as loaded
CompareMetrics(r) ==
    /\ pc[r] = "idle"
    /\ entry' = [entry EXCEPT ![r] = "compare_metrics"]
    /\ \E k \in 1..Len(XOptions) :
           cm_args' = [cm_args EXCEPT ![r] =
               [default_df |-> csvCo2, life_expectancy_df |-> csvLife,
                selected_country |-> selected_country[r],
                selected_year_range |-> selected_year_range[r],
                x_axis_variable |-> XOptions[k], y_axis_variable |-> y_axis_variable]]
    /\ pc' = [pc EXCEPT ![r] = "cm_filter_life"]
    /\ UNCHANGED <<inputs, pageLocals, cmLocals, st_out>>

\* lines 74-78
CmFilterLife(r) ==
    /\ pc[r] = "cm_filter_life"
    /\ LET a == cm_args[r]
           ix == BoolIndex(a.life_expectancy_df,
                           RowMask(a.life_expectancy_df, "Entity", "Year",
                                   a.selected_country, a.selected_year_range))
       IN  /\ cm_args' = [cm_args EXCEPT ![r].life_expectancy_df = ix.self]
           /\ cm_life_expectancy_filtered' =
                  [cm_life_expectancy_filtered EXCEPT ![r] = ix.result]
    /\ pc' = [pc EXCEPT ![r] = "cm_filter_co2"]
    /\ UNCHANGED <<inputs, entry, pageLocals, cm_co2_data_filtered, cm_merged_df,
                   fig, trendline, st_out>>

\* lines 81-85
CmFilterCo2(r) ==
    /\ pc[r] = "cm_filter_co2"
    /\ LET a == cm_args[r]
           ix == BoolIndex(a.default_df,
                           RowMask(a.default_df, "country", "year",
                                   a.selected_country, a.selected_year_range))
       IN  /\ cm_args' = [cm_args EXCEPT ![r].default_df = ix.self]
           /\ cm_co2_data_filtered' = [cm_co2_data_filtered EXCEPT ![r] = ix.result]
    /\ pc' = [pc EXCEPT ![r] = "cm_merge"]
    /\ UNCHANGED <<inputs, entry, pageLocals, cm_life_expectancy_filtered,
                   cm_merged_df, fig, trendline, st_out>>

\* line 88
CmMerge(r) ==
    /\ pc[r] = "cm_merge"
    /\ cm_merged_df' = [cm_merged_df EXCEPT ![r] =
           merge(cm_co2_data_filtered[r], cm_life_expectancy_filtered[r])]
    /\ pc' = [pc EXCEPT ![r] = "cm_guard"]
    /\ UNCHANGED <<inputs, entry, pageLocals, cm_args, cmFiltered, fig, trendline,
                   st_out>>

\* lines 91-93
CmGuard(r) ==
    /\ pc[r] = "cm_guard"
    /\ IF empty(cm_merged_df[r])
       THEN /\ st_out' = [st_out EXCEPT ![r] = Append(@, "warning")]
            /\ pc' = [pc EXCEPT ![r] = "done"]
       ELSE /\ st_out' = st_out
            /\ pc' = [pc EXCEPT ![r] = "cm_scatter"]
    /\ UNCHANGED <<inputs, entry, pageLocals, cm_args, cmLocals>>

\* scatter_trace without the selection of the country's rows
scatter_trace_all(df, country, x, y) ==
    [name |-> <<country, x, "vs", y>>, mode |-> "markers",
     x |-> Column(df, x), y |-> Column(df, y)]

\* lines 100-107: the markers trace of one country
scatter_trace(df, country, x, y) ==
    LET country_data == BoolIndex(df, [i \in 1..Len(df) |-> df[i]["country"] = country]).result
    IN  [name |-> <<country, x, "vs", y>>, mode |-> "markers",
         x |-> Column(country_data, x), y |-> Column(country_data, y)]

\* lines 96-107: a new figure and one trace per element of selected_country
CmScatter(r) ==
    /\ pc[r] = "cm_scatter"
    /\ LET a == cm_args[r]
       IN  fig' = [fig EXCEPT ![r] =
               [k \in 1..Len(a.selected_country) |->
                   scatter_trace(cm_merged_df[r], a.selected_country[k],
                                 a.x_axis_variable, a.y_axis_variable)]]
    /\ pc' = [pc EXCEPT ![r] = "cm_ols"]
    /\ UNCHANGED <<inputs, entry, pageLocals, cm_args, cmFiltered, cm_merged_df,
                   trendline, st_out>>

\* lines 110-115: the exception of sm.OLS leaves compare_metrics and page
CmOls(r) ==
    /\ pc[r] = "cm_ols"
    /\ LET a == cm_args[r]
       IN  IF OlsRaises(cm_merged_df[r], a.x_axis_variable)
           THEN /\ trendline' = trendline
                /\ pc' = [pc EXCEPT ![r] = "raised"]
           ELSE /\ trendline' = [trendline EXCEPT ![r] =
                       ols_predict(cm_merged_df[r], a.x_axis_variable, a.y_axis_variable)]
                /\ pc' = [pc EXCEPT ![r] = "cm_trend"]
    /\ UNCHANGED <<inputs, entry, pageLocals, cm_args, cmFiltered, cm_merged_df,
                   fig, st_out>>

\* lines 118-124: the lines trace of the fit
trend_trace(df, x, fitted) ==
    [name |-> <<"OLS Trendline">>, mode |-> "lines", x |-> Column(df, x), y |-> fitted]

CmTrend(r) ==
    /\ pc[r] = "cm_trend"
    /\ fig' = [fig EXCEPT ![r] =
           Append(@, trend_trace(cm_merged_df[r], cm_args[r].x_axis_variable, trendline[r]))]
    /\ pc' = [pc EXCEPT ![r] = "cm_show"]
    /\ UNCHANGED <<inputs, entry, pageLocals, cm_args, cmFiltered, cm_merged_df,
                   trendline, st_out>>

\* lines 127-135: st.plotly_chart(fig)
CmShow(r) ==
    /\ pc[r] = "cm_show"
    /\ st_out' = [st_out EXCEPT ![r] = Append(@, "scatter")]
    /\ pc' = [pc EXCEPT ![r] = "done"]
    /\ UNCHANGED <<inputs, entry, pageLocals, cm_args, cmLocals>>

(***************************************************************************)
(* Specifications                                                          *)
(***************************************************************************)
Next ==
    \E r \in Runs :
        \/ Page(r) \/ ReadCsv(r) \/ AstypeYear(r) \/ FilterLife(r) \/ FilterCo2(r)
        \/ Merge(r) \/ Guard(r) \/ Corr(r) \/ Heatmap(r) \/ SelectboxAndCall(r)
        \/ CompareMetrics(r) \/ CmFilterLife(r) \/ CmFilterCo2(r) \/ CmMerge(r)
        \/ CmGuard(r) \/ CmScatter(r) \/ CmOls(r) \/ CmTrend(r) \/ CmShow(r)

Spec == Init /\ [][Next]_vars

\* the same program on the value-varying inputs
SpecNum == InitNum /\ [][Next]_vars

(***************************************************************************)
(* Two callers: both runs are invoked and their statements interleave.     *)
(* Streamlit runs each session's script in its own thread over the same    *)
(* files.                                                                  *)
(***************************************************************************)
TwoRunCo2 ==
    <<Co2Row("France", YearCell(2000), 1, 1, 0, NaN),
      Co2Row("Germany", HalfYearCell(2000), 2, NaN, 0, 1),
      Co2Row("Germany", YearCell(2001), 2, 2, 0, 1)>>

TwoRunLife ==
    <<LifeRow("France", HalfYearCell(2000), 1), LifeRow("Germany", YearCell(2001), 2)>>

InitTwo ==
    /\ csvCo2 = TwoRunCo2
    /\ csvLife = TwoRunLife
    /\ selected_country \in [Runs -> {<<"France">>, <<"Germany", "France">>}]
    /\ selected_year_range \in [Runs -> {<<2000, 2000>>, <<2000, 2001>>}]
    /\ dataframe = [r \in Runs |-> csvCo2]
    /\ pc = [r \in Runs |-> "idle"]
    /\ InitLocals

SpecTwo == InitTwo /\ [][Next]_vars

(***************************************************************************)
(* Which locals a run has bound                                            *)
(***************************************************************************)
RangeOf(seq) == {seq[i] : i \in 1..Len(seq)}

\* compare_metrics has been entered (by page's call or by a caller)
CmEntered(r) == cm_args[r] # NoArgs

PageFilteredLife(r) ==
    entry[r] = "page" /\ pc[r] \notin {"read_csv", "astype", "filter_life"}

PageFilteredCo2(r) == PageFilteredLife(r) /\ pc[r] # "filter_co2"

PageMerged(r) == PageFilteredCo2(r) /\ pc[r] # "merge"

PageCorrelated(r) == PageMerged(r) /\ pc[r] \notin {"guard", "corr"} /\ merged_df[r] # <<>>

CmFilteredLife(r) == CmEntered(r) /\ pc[r] # "cm_filter_life"

CmFilteredCo2(r) == CmFilteredLife(r) /\ pc[r] # "cm_filter_co2"

CmMerged(r) == CmFilteredCo2(r) /\ pc[r] # "cm_merge"

CmScattered(r) ==
    CmMerged(r) /\ pc[r] \notin {"cm_guard", "cm_scatter"} /\ cm_merged_df[r] # <<>>

CmTrended(r) == CmScattered(r) /\ pc[r] \notin {"cm_ols", "cm_trend", "raised"}

(***************************************************************************)
(* C1: the filter keeps exactly the rows of the selected entities within   *)
(* the inclusive year range                                                *)
(***************************************************************************)
\* the rows of df whose entity is selected and whose year cell lies in
\* [min_year, max_year], in df's order
Included(df, entityCol, yearCol, countries, year_range) ==
    SelectSeq(df, LAMBDA row :
        /\ row[entityCol] \in RangeOf(countries)
        /\ YearCell(year_range[1]) <= row[yearCol]
        /\ row[yearCol] <= YearCell(year_range[2]))

\* C1: each of the four filtered tables (page's and compare_metrics', the
\* life-expectancy one and the CO2 one) is, once bound, exactly the rows of
\* the table it was taken from that satisfy the inclusion predicate.
C1_FilterIsInclusionPredicate ==
    \A r \in Runs :
        /\ PageFilteredLife(r) =>
               life_expectancy_filtered[r] =
                   Included(life_expectancy_df[r], "Entity", "Year",
                            selected_country[r], selected_year_range[r])
        /\ PageFilteredCo2(r) =>
               co2_data_filtered[r] =
                   Included(default_df[r], "country", "year",
                            selected_country[r], selected_year_range[r])
        /\ CmFilteredLife(r) =>
               cm_life_expectancy_filtered[r] =
                   Included(cm_args[r].life_expectancy_df, "Entity", "Year",
                            cm_args[r].selected_country, cm_args[r].selected_year_range)
        /\ CmFilteredCo2(r) =>
               cm_co2_data_filtered[r] =
                   Included(cm_args[r].default_df, "country", "year",
                            cm_args[r].selected_country, cm_args[r].selected_year_range)

\* both tables of a compare_metrics call were filtered, each filter dropping
\* one row and keeping one whose year is the range's upper end
C1_Witness ==
    \E r \in Runs :
        /\ CmFilteredCo2(r)
        /\ Len(cm_args[r].default_df) > 1 /\ Len(cm_co2_data_filtered[r]) = 1
        /\ cm_co2_data_filtered[r][1]["year"] = YearCell(cm_args[r].selected_year_range[2])
        /\ Len(cm_args[r].life_expectancy_df) > 1 /\ Len(cm_life_expectancy_filtered[r]) = 1
        /\ cm_life_expectancy_filtered[r][1]["Year"] = YearCell(cm_args[r].selected_year_range[2])

(***************************************************************************)
(* C2: an empty merge is answered with a warning and nothing else          *)
(***************************************************************************)
Count(seq, v) == Len(SelectSeq(seq, LAMBDA e : e = v))

\* C2: once page's merge is bound and empty and its guard has run, the run
\* has returned with the warning as its only output besides the title, the
\* correlation matrix, the figure and the fit were never computed, and
\* compare_metrics was not called.  Once compare_metrics' merge is bound and
\* empty and its guard has run, the run has returned, the warning is the last
\* thing it emitted, and neither a figure nor a fit exists.
C2_EmptyMergeWarnsAndHalts ==
    \A r \in Runs :
        /\ (PageMerged(r) /\ merged_df[r] = <<>> /\ pc[r] # "guard") =>
               /\ pc[r] = "done"
               /\ st_out[r] = <<"title", "warning">>
               /\ correlation_matrix[r] = corr(<<>>, selected_columns)
               /\ ~CmEntered(r)
               /\ fig[r] = <<>> /\ trendline[r] = <<>>
        /\ (CmMerged(r) /\ cm_merged_df[r] = <<>> /\ pc[r] # "cm_guard") =>
               /\ pc[r] = "done"
               /\ st_out[r] # <<>> /\ st_out[r][Len(st_out[r])] = "warning"
               /\ Count(st_out[r], "scatter") = 0
               /\ fig[r] = <<>> /\ trendline[r] = <<>>

\* page met an empty merge of two non-empty filtered tables and returned
C2_Witness ==
    \E r \in Runs :
        /\ entry[r] = "page" /\ pc[r] = "done" /\ merged_df[r] = <<>>
        /\ life_expectancy_filtered[r] # <<>> /\ co2_data_filtered[r] # <<>>
        /\ st_out[r] = <<"title", "warning">>

(***************************************************************************)
(* C4: the merge is the inner join on (country, year) = (Entity, Year)     *)
(***************************************************************************)
KeysMatch(l, rr) == l["country"] = rr["Entity"] /\ l["year"] = rr["Year"]

MatchingPairs(left, right) ==
    {p \in (1..Len(left)) \X (1..Len(right)) : KeysMatch(left[p[1]], right[p[2]])}

\* m holds one row per matching pair of a left and a right row, the pair's
\* two rows side by side, and nothing else
IsInnerJoin(m, left, right) ==
    /\ Len(m) = Cardinality(MatchingPairs(left, right))
    /\ \A p \in MatchingPairs(left, right) :
           \E k \in 1..Len(m) : m[k] = left[p[1]] @@ right[p[2]]
    /\ \A k \in 1..Len(m) :
           \E p \in MatchingPairs(left, right) : m[k] = left[p[1]] @@ right[p[2]]

\* C4: once bound, page's merged table is the inner join of its two filtered
\* tables, and compare_metrics' merged table is the inner join of its two;
\* no run has raised before its merge was bound.
C4_MergeIsInnerJoin ==
    \A r \in Runs :
        /\ PageMerged(r) =>
               IsInnerJoin(merged_df[r], co2_data_filtered[r], life_expectancy_filtered[r])
        /\ CmMerged(r) =>
               IsInnerJoin(cm_merged_df[r], cm_co2_data_filtered[r],
                           cm_life_expectancy_filtered[r])
        /\ pc[r] = "raised" => CmMerged(r)

\* a merge in which one CO2 row found its counterpart and another CO2 row of
\* the same country and a life-expectancy row found none
C4_Witness ==
    \E r \in Runs :
        /\ PageMerged(r)
        /\ Len(co2_data_filtered[r]) = 2 /\ Len(life_expectancy_filtered[r]) = 2
        /\ co2_data_filtered[r][1]["country"] = co2_data_filtered[r][2]["country"]
        /\ Len(merged_df[r]) = 1

(***************************************************************************)
(* C10: on the path through page, compare_metrics recomputes page's tables *)
(***************************************************************************)
\* C10: in a run that entered through page, the filtered tables and the
\* merged table of compare_metrics, once bound, equal page's and the merged
\* table is not empty; the run has emitted at most one warning.
C10_CallFromPageRecomputesSameMerge ==
    \A r \in Runs :
        entry[r] = "page" =>
            /\ CmFilteredLife(r) =>
                   cm_life_expectancy_filtered[r] = life_expectancy_filtered[r]
            /\ CmFilteredCo2(r) => cm_co2_data_filtered[r] = co2_data_filtered[r]
            /\ CmMerged(r) =>
                   cm_merged_df[r] = merged_df[r] /\ cm_merged_df[r] # <<>>
            /\ Count(st_out[r], "warning") <= 1

\* page called compare_metrics, whose guard is about to run, on a
\* life-expectancy table in which the conversion of Year changed a cell
C10_Witness ==
    \E r \in Runs :
        /\ entry[r] = "page" /\ pc[r] = "cm_guard"
        /\ life_expectancy_df[r] # csvLife
        /\ Len(cm_merged_df[r]) >= 1

(***************************************************************************)
(* C5: one markers series per selected entity                              *)
(***************************************************************************)
RowsOf(df, country) == SelectSeq(df, LAMBDA row : row["country"] = country)

Distinct(seq) == \A i, j \in 1..Len(seq) : seq[i] = seq[j] => i = j

\* C5: once the scatter traces are added, trace k holds, for the k-th
\* selected entity, the x and y cells of exactly the merged rows of that
\* entity in the merged table's order (none when the entity has no row);
\* when the selected entities are distinct the series lengths add up to the
\* number of merged rows whose country is selected.
C5_PerEntitySeries ==
    \A r \in Runs :
        CmScattered(r) =>
            LET a == cm_args[r]
                sel == a.selected_country
                m == cm_merged_df[r]
            IN  /\ Len(fig[r]) >= Len(sel)
                /\ \A k \in 1..Len(sel) :
                       /\ fig[r][k].mode = "markers"
                       /\ fig[r][k].name = <<sel[k], a.x_axis_variable, "vs", a.y_axis_variable>>
                       /\ fig[r][k].x = [i \in 1..Len(RowsOf(m, sel[k])) |->
                                            RowsOf(m, sel[k])[i][a.x_axis_variable]]
                       /\ fig[r][k].y = [i \in 1..Len(RowsOf(m, sel[k])) |->
                                            RowsOf(m, sel[k])[i][a.y_axis_variable]]
                /\ Distinct(sel) =>
                       SumSeq([k \in 1..Len(sel) |-> Len(fig[r][k].x)]) =
                           Cardinality({i \in 1..Len(m) : m[i]["country"] \in RangeOf(sel)})

\* two distinct entities are selected, the merged table has a row of the
\* second one before a row of the first one, and both series are non-empty
C5_Witness ==
    \E r \in Runs :
        /\ CmScattered(r)
        /\ Len(cm_args[r].selected_country) = 2 /\ Distinct(cm_args[r].selected_country)
        /\ Len(cm_merged_df[r]) = 2
        /\ cm_merged_df[r][1]["country"] = cm_args[r].selected_country[2]
        /\ cm_merged_df[r][2]["country"] = cm_args[r].selected_country[1]
        /\ Len(fig[r][1].x) = 1 /\ Len(fig[r][2].x) = 1

\* an entity is selected that has no merged row: its series is empty
C5_EmptySeriesReached ==
    \E r \in Runs :
        /\ CmScattered(r) /\ Len(cm_args[r].selected_country) = 2
        /\ fig[r][2].x = <<>> /\ fig[r][1].x # <<>>

(***************************************************************************)
(* C6: one pooled least-squares fit, one fitted value per merged row       *)
(***************************************************************************)
\* fit is the least-squares line of ys on xs over all the rows: the fitted
\* values lie on one line in x, and the residuals sum to zero and are
\* orthogonal to x (the normal equations)
IsLeastSquares(fit, xs, ys) ==
    LET n == Len(xs)
        d == fit[1].den
        res == [i \in 1..n |-> ys[i] * d - fit[i].num]
    IN  /\ Len(fit) = n /\ Len(ys) = n
        /\ d > 0 /\ \A i \in 1..n : fit[i].den = d
        /\ \A i, j, k \in 1..n :
               (fit[i].num - fit[j].num) * (xs[i] - xs[k]) =
                   (fit[i].num - fit[k].num) * (xs[i] - xs[j])
        /\ SumSeq(res) = 0
        /\ SumSeq([i \in 1..n |-> xs[i] * res[i]]) = 0

TrendTraces(f) == {k \in 1..Len(f) : f[k].name = <<"OLS Trendline">>}

\* C6: once the trendline trace is added, the figure holds exactly one trace
\* named OLS Trendline, after the per-entity traces; it has one fitted value
\* per merged row, paired with that row's x cell in the merged table's row
\* order, and the fitted values are the least-squares fit over all merged
\* rows of every entity.
C6_PooledTrendline ==
    \A r \in Runs :
        CmTrended(r) =>
            LET a == cm_args[r]
                m == cm_merged_df[r]
                t == fig[r][Len(fig[r])]
            IN  /\ TrendTraces(fig[r]) = {Len(a.selected_country) + 1}
                /\ Len(fig[r]) = Len(a.selected_country) + 1
                /\ t.mode = "lines"
                /\ Len(t.y) = Len(m) /\ Len(t.x) = Len(m)
                /\ \A i \in 1..Len(m) : t.x[i] = m[i][a.x_axis_variable]
                /\ IsLeastSquares(t.y, [i \in 1..Len(m) |-> m[i][a.x_axis_variable]],
                                  [i \in 1..Len(m) |-> m[i][a.y_axis_variable]])

\* a trendline over three merged rows with two x values that no line fits
C6_Witness ==
    \E r \in Runs :
        /\ CmTrended(r)
        /\ Len(cm_merged_df[r]) = 3
        /\ LET t == fig[r][Len(fig[r])]
           IN  /\ \E i, j \in 1..3 : t.x[i] # t.x[j]
               /\ \E i \in 1..3 :
                      cm_merged_df[r][i][cm_args[r].y_axis_variable] * t.y[i].den # t.y[i].num

\* a trendline over the rows of two entities
C6_TwoEntitiesPooled ==
    \E r \in Runs :
        /\ CmTrended(r) /\ Len(cm_merged_df[r]) = 2
        /\ cm_merged_df[r][1]["country"] # cm_merged_df[r][2]["country"]
        /\ cm_merged_df[r][1]["co2_per_capita"] * fig[r][Len(fig[r])].y[1].den
               # fig[r][Len(fig[r])].y[1].num

(***************************************************************************)
(* C7: the correlation matrix shown in the heatmap                         *)
(***************************************************************************)
\* the column has two present cells that differ
HasVariance(df, col) ==
    \E i, j \in 1..Len(df) :
        df[i][col] # NaN /\ df[j][col] # NaN /\ df[i][col] # df[j][col]

\* the coefficient is the number 1
IsOne(c) == c.den2 > 0 /\ c.num > 0 /\ c.num * c.num = c.den2

\* the coefficient is NaN, which is no number
IsUndefined(c) == c.den2 = 0

\* C7: once computed, the correlation matrix over co2_per_capita, gdp,
\* cement_co2, trade_co2 (the heatmap's z) is symmetric, a diagonal cell is
\* exactly 1 when its column has non-zero variance over the merged rows, and
\* it is NaN, not 1 or any other number, when the column has none.
C7_CorrelationDiagonal ==
    \A r \in Runs :
        PageCorrelated(r) =>
            LET cm == correlation_matrix[r]
                n == Len(selected_columns)
            IN  /\ DOMAIN cm = (1..n) \X (1..n)
                /\ \A i, j \in 1..n : cm[<<i, j>>] = cm[<<j, i>>]
                /\ \A i \in 1..n :
                       IF HasVariance(merged_df[r], selected_columns[i])
                       THEN IsOne(cm[<<i, i>>])
                       ELSE IsUndefined(cm[<<i, i>>])

\* the heatmap was shown for a matrix with a diagonal cell of 1, a NaN
\* diagonal cell of a column whose cells are all equal, and a NaN diagonal
\* cell of a column with a single present cell
C7_Witness ==
    \E r \in Runs :
        /\ PageCorrelated(r) /\ Count(st_out[r], "heatmap") = 1
        /\ Len(merged_df[r]) = 3
        /\ IsOne(correlation_matrix[r][<<1, 1>>])
        /\ IsUndefined(correlation_matrix[r][<<3, 3>>])
        /\ IsUndefined(correlation_matrix[r][<<2, 2>>])
        /\ Cardinality({i \in 1..3 : merged_df[r][i]["gdp"] # NaN}) = 1

(***************************************************************************)
(* C3: a degenerate x column                                               *)
(***************************************************************************)
\* every merged row has the same x cell (so also: there is one merged row)
DegenerateX(df, x) == \A i, j \in 1..Len(df) : df[i][x] = df[j][x]

\* C3 as claimed: when the merged table is not empty and its x column is
\* degenerate, the figure never holds an OLS Trendline trace.
C3_DegenerateFitNotPlotted ==
    \A r \in Runs :
        (CmMerged(r) /\ cm_merged_df[r] # <<>>
            /\ DegenerateX(cm_merged_df[r], cm_args[r].x_axis_variable)) =>
            TrendTraces(fig[r]) = {}

(***************************************************************************)
(* C8: the integer conversion of the year columns                          *)
(***************************************************************************)
WholeYears(df, yearCol) == \A i \in 1..Len(df) : df[i][yearCol] % 10 = 0

\* C8 as claimed: when a filter of page or of compare_metrics is about to
\* compare a table's years with the year range, every year cell of that
\* table is an integer.
C8_YearsAreIntegersWhenCompared ==
    \A r \in Runs :
        /\ pc[r] = "filter_life" => WholeYears(life_expectancy_df[r], "Year")
        /\ pc[r] = "filter_co2" => WholeYears(default_df[r], "year")
        /\ pc[r] = "cm_filter_life" => WholeYears(cm_args[r].life_expectancy_df, "Year")
        /\ pc[r] = "cm_filter_co2" => WholeYears(cm_args[r].default_df, "year")

\* what line 13 does establish: page's life-expectancy table has integer
\* years from its filter on, also in the compare_metrics it calls
C8_LifeYearsConvertedInPage ==
    \A r \in Runs :
        entry[r] = "page" =>
            /\ pc[r] \notin {"read_csv", "astype"} => WholeYears(life_expectancy_df[r], "Year")
            /\ WholeYears(cm_args[r].life_expectancy_df, "Year")

\* an off-diagonal cell that is a number strictly between 0 and 1
C7_OffDiagonalReached ==
    \E r \in Runs :
        /\ PageCorrelated(r)
        /\ correlation_matrix[r][<<2, 1>>].num > 0
        /\ correlation_matrix[r][<<2, 1>>].num * correlation_matrix[r][<<2, 1>>].num
               < correlation_matrix[r][<<2, 1>>].den2

(***************************************************************************)
(* C9: no run changes what it was given, so runs do not affect each other  *)
(***************************************************************************)
\* what compare_metrics leaves behind when it runs on its own
AloneCompareMetrics(co2, life, countries, year_range, x, y) ==
    LET lf == BoolIndex(life, RowMask(life, "Entity", "Year", countries, year_range)).result
        cf == BoolIndex(co2, RowMask(co2, "country", "year", countries, year_range)).result
        m == merge(cf, lf)
        traces == [k \in 1..Len(countries) |-> scatter_trace(m, countries[k], x, y)]
    IN  IF m = <<>> THEN [out |-> <<"warning">>, fig |-> <<>>, end |-> "done"]
        ELSE IF OlsRaises(m, x) THEN [out |-> <<>>, fig |-> traces, end |-> "raised"]
        ELSE [out |-> <<"scatter">>,
              fig |-> Append(traces, trend_trace(m, x, ols_predict(m, x, y))),
              end |-> "done"]

\* what page leaves behind when it runs on its own and the user picks x
AlonePage(countries, year_range, x) ==
    LET life == AstypeIntColumn(read_csv(csvLife), "Year")
        co2 == read_csv(csvCo2)
        lf == BoolIndex(life, RowMask(life, "Entity", "Year", countries, year_range)).result
        cf == BoolIndex(co2, RowMask(co2, "country", "year", countries, year_range)).result
        m == merge(cf, lf)
        c == AloneCompareMetrics(co2, life, countries, year_range, x, y_axis_variable)
    IN  IF m = <<>>
        THEN [out |-> <<"title", "warning">>, corr |-> corr(<<>>, selected_columns),
              fig |-> <<>>, end |-> "done"]
        ELSE [out |-> <<"title", "heatmap">> \o c.out, corr |-> corr(m, selected_columns),
              fig |-> c.fig, end |-> c.end]

\* a finished run shows what the same call shows when it runs on its own
OutputsAsAlone ==
    \A r \in Runs :
        pc[r] \in {"done", "raised"} =>
            LET x == cm_args[r].x_axis_variable
                p == AlonePage(selected_country[r], selected_year_range[r], x)
                c == AloneCompareMetrics(csvCo2, csvLife, selected_country[r],
                                         selected_year_range[r], x, y_axis_variable)
            IN  IF entry[r] = "page"
                THEN /\ st_out[r] = p.out /\ fig[r] = p.fig /\ pc[r] = p.end
                     /\ correlation_matrix[r] = p.corr
                ELSE /\ st_out[r] = c.out /\ fig[r] = c.fig /\ pc[r] = c.end

\* no step changes the files, page's arguments, or the arguments of a
\* compare_metrics call in progress
ArgumentsKept ==
    /\ UNCHANGED <<csvLife, csvCo2, dataframe, selected_country, selected_year_range>>
    /\ \A r \in Runs : CmEntered(r) => cm_args'[r] = cm_args[r]

\* C9: with two runs interleaved, every step leaves the files, the arguments
\* of page (dataframe, selected_country, selected_year_range) and the tables
\* and values passed to compare_metrics as they were, and each finished run
\* shows what it shows when run alone.
C9_RunsShareNoMutatedState == [][ArgumentsKept]_vars /\ []OutputsAsAlone

\* both runs are under way with different selections, one of them inside
\* compare_metrics after a filter that dropped rows of the table it was
\* passed, the other inside page
C9_Witness ==
    /\ pc["r1"] = "cm_ols" /\ pc["r2"] = "merge"
    /\ selected_country["r1"] # selected_country["r2"]
    /\ Len(cm_co2_data_filtered["r1"]) < Len(cm_args["r1"].default_df)
    /\ cm_args["r1"].default_df = csvCo2

====
